---- MODULE Spec2Model ----
(***************************************************************************)
(* Model of Main_Project/app: the ETL pipeline (pipeline.py, config.py)    *)
(* and the dashboard (dashboard.py).                                       *)
(*                                                                         *)
(* A table (pandas DataFrame) is a sequence of records, one per row, in    *)
(* row order; the DataFrame with no rows and no columns is << >>.          *)
(* The nba_api registry and game-log endpoint are external: their answers  *)
(* are drawn in Init and stay fixed, so that every run sees the same       *)
(* upstream data.                                                          *)
(***************************************************************************)
EXTENDS Integers, Sequences, FiniteSets, TLC

VARIABLES
    registry,          \* nba_api static player list, in registry order
    api,               \* [player id, season] -> the game-log endpoint's answer
    files,             \* the filesystem: path -> [exists, rows]
    player_names,      \* the argument of resolve_player_ids
    pc,                \* position of the pipeline process
    run_no,            \* how many times run() has been started
    dim_players,       \* run(): dim_players
    raised,            \* the name resolve_player_ids raised at ("" if none)
    si, pi,            \* extract_player_gamelogs: loop positions (season, player)
    all_logs,          \* extract_player_gamelogs: all_logs
    attempts,          \* history: the (season, player id) pairs called, in order
    printed,           \* history: the pairs whose failure was printed
    raw_player_games,  \* run(): raw_player_games
    fact_player_game,  \* run(): fact_player_game
    player_trends,     \* run(): player_trends
    first_run,         \* history: the files as the first completed run left them
    start_files,       \* history: the files as they were when the current run began
    writes,            \* history: paths written by the current run, in order
    dpc,               \* position of the dashboard script
    shown,             \* history: what the dashboard has put on the page, in order
    reads,             \* history: the files the dashboard has read, in order
    fact, trends, players,              \* main(): the loaded tables
    selected_player, selected_seasons,  \* main(): the sidebar's values
    fact_f, trends_f, league_f,         \* main(): the filtered tables
    ranged             \* history: whether the date-range filter has been applied

pipeVars == <<registry, api, files, player_names, pc, run_no, dim_players, raised,
              si, pi, all_logs, attempts, printed, raw_player_games,
              fact_player_game, player_trends, first_run, start_files, writes>>

dashVars == <<dpc, shown, reads, fact, trends, players, selected_player,
              selected_seasons, fact_f, trends_f, league_f, ranged>>

vars == <<pipeVars, dashVars>>

----------------------------------------------------------------------------
(* Bounds of the model *)

\* players in the static registry
NumRegistry == 2
\* longest list of names handed to resolve_player_ids in SpecResolve
MaxNames == 2
\* how many times run() is started in a behaviour
MaxRuns == 2

----------------------------------------------------------------------------
(* config.py *)

SEASONS == <<"2023-24", "2024-25">>

\* the first entries of the configured list
PLAYER_NAMES == <<"Nikola Jokic", "Luka Doncic">>

RAW_PLAYERS == "raw/raw_players.parquet"
RAW_GAMELOGS == "raw/raw_player_gamelogs.parquet"
DIM_PLAYERS == "processed/dim_players.parquet"
FACT_PATH == "processed/fact_player_game.parquet"
TRENDS_PATH == "processed/mart_player_trends.parquet"

Paths == {RAW_PLAYERS, RAW_GAMELOGS, DIM_PLAYERS, FACT_PATH, TRENDS_PATH}

----------------------------------------------------------------------------
(* Sequence helpers *)

Range(s) == {s[i] : i \in 1..Len(s)}

SeqsUpTo(S, n) == UNION {[1..k -> S] : k \in 0..n}

RECURSIVE Flatten(_)
Flatten(ss) == IF ss = << >> THEN << >> ELSE Head(ss) \o Flatten(Tail(ss))

----------------------------------------------------------------------------
(* nba_api.stats.static.players: the registry *)

\* names that may be looked up, and full names the registry may hold
LookupNames == {"Nikola Jokic", "Luka Doncic", "Doncic"}
FullNames == {"Nikola Jokic", "Luka Doncic", "Luka Doncic Jr."}

\* find_players_by_full_name searches the pattern in each full name
NameMatches(pattern, full_name) ==
    \/ pattern = full_name
    \/ pattern = "Luka Doncic" /\ full_name = "Luka Doncic Jr."
    \/ pattern = "Doncic" /\ full_name \in {"Luka Doncic", "Luka Doncic Jr."}

\* registries: players with ids 1..n in registry order
Registries(n) ==
    {r \in [1..n -> [id : 1..n, full_name : FullNames, is_active : BOOLEAN]] :
        \A i \in 1..n : r[i].id = i}

find_players_by_full_name(reg, name) ==
    SelectSeq(reg, LAMBDA p : NameMatches(name, p.full_name))

----------------------------------------------------------------------------
(* pipeline.py: resolve_player_ids *)

\* sorted without reverse=True: the inactive matches come first
sorted_inactive_first(matches) ==
    SelectSeq(matches, LAMBDA p : ~p.is_active)
        \o SelectSeq(matches, LAMBDA p : p.is_active)

\* sorted(matches, key=is_active, reverse=True): stable, so the active matches
\* come first in registry order, then the others in registry order
sorted_active_first(matches) ==
    SelectSeq(matches, LAMBDA p : p.is_active)
        \o SelectSeq(matches, LAMBDA p : ~p.is_active)

\* the row appended for one name
resolve_row(reg, name) ==
    LET p == sorted_active_first(find_players_by_full_name(reg, name))[1]
    IN  [player_id |-> p.id, player_name |-> name,
         full_name_registry |-> p.full_name, is_active |-> p.is_active]

\* no drop_duplicates: every row is kept
keep_all_rows(rows) == rows

\* DataFrame.drop_duplicates(subset=["player_id"]): keep the first row of each id
RECURSIVE drop_duplicates_player_id(_)
drop_duplicates_player_id(rows) ==
    IF rows = << >> THEN << >>
    ELSE LET init == drop_duplicates_player_id(SubSeq(rows, 1, Len(rows) - 1))
             last == rows[Len(rows)]
         IN  IF \E i \in 1..Len(init) : init[i].player_id = last.player_id
             THEN init ELSE Append(init, last)

\* a loop that skips a name without a match instead of raising
RECURSIVE resolve_loop_skipping(_, _, _, _)
resolve_loop_skipping(reg, names, i, rows) ==
    IF i > Len(names) THEN [raised |-> "", rows |-> rows]
    ELSE IF find_players_by_full_name(reg, names[i]) = << >>
         THEN resolve_loop_skipping(reg, names, i + 1, rows)
         ELSE resolve_loop_skipping(reg, names, i + 1,
                                    Append(rows, resolve_row(reg, names[i])))

\* the loop of resolve_player_ids: the rows built from names[i..], or the first
\* name without a match
RECURSIVE resolve_loop(_, _, _, _)
resolve_loop(reg, names, i, rows) ==
    IF i > Len(names) THEN [raised |-> "", rows |-> rows]
    ELSE IF find_players_by_full_name(reg, names[i]) = << >>
         THEN [raised |-> names[i], rows |-> << >>]
         ELSE resolve_loop(reg, names, i + 1, Append(rows, resolve_row(reg, names[i])))

resolve_player_ids(reg, names) ==
    LET r == resolve_loop(reg, names, 1, << >>)
    IN  IF r.raised # "" THEN r
        ELSE [raised |-> "", rows |-> drop_duplicates_player_id(r.rows)]

----------------------------------------------------------------------------
(* nba_api.stats.endpoints.playergamelog: the game-log endpoint *)

\* box-score lines a game row may carry
HighLine == [PTS |-> 30, REB |-> 10, AST |-> 4]
LowLine == [PTS |-> 11, REB |-> 3, AST |-> 9]
StatLines == {HighLine, LowLine}

\* two games of a season, with the date string the endpoint gives for each; a
\* Game_ID, a string of digits, is written as the number it spells
Opener(season) ==
    IF season = "2023-24"
    THEN [Game_ID |-> 22300061, GAME_DATE |-> "OCT 24, 2023"]
    ELSE [Game_ID |-> 22400062, GAME_DATE |-> "OCT 22, 2024"]

Finale(season) ==
    IF season = "2023-24"
    THEN [Game_ID |-> 22301190, GAME_DATE |-> "APR 14, 2024"]
    ELSE [Game_ID |-> 22401188, GAME_DATE |-> "APR 13, 2025"]

GamesOf(season) == {Opener(season), Finale(season)}

\* one row of PlayerGameLog(player_id, season).get_data_frames()[0]
api_row(pid, g, st) ==
    [Player_ID |-> pid, Game_ID |-> g.Game_ID, GAME_DATE |-> g.GAME_DATE,
     PTS |-> st.PTS, REB |-> st.REB, AST |-> st.AST, VIDEO_AVAILABLE |-> 1]

\* the answers the endpoint may give: an exception, or a table
Failure == [ok |-> FALSE, rows |-> << >>]
Table(rows) == [ok |-> TRUE, rows |-> rows]

----------------------------------------------------------------------------
(* pipeline.py: extract_player_gamelogs *)

\* df["season"] = season; df["player_id"] = pid; df["player_name"] = pname
tag_row(r, season, pid, pname) ==
    [Player_ID |-> r.Player_ID, Game_ID |-> r.Game_ID, GAME_DATE |-> r.GAME_DATE,
     PTS |-> r.PTS, REB |-> r.REB, AST |-> r.AST, VIDEO_AVAILABLE |-> r.VIDEO_AVAILABLE,
     season |-> season, player_id |-> pid, player_name |-> pname]

tag_rows(rows, season, pid, pname) ==
    [i \in 1..Len(rows) |-> tag_row(rows[i], season, pid, pname)]

\* one pass of the loop body for (season, row): the new all_logs
extract_body(logs, resp, season, row) ==
    IF ~resp.ok THEN logs                    \* except Exception: print, go on
    ELSE IF resp.rows = << >> THEN logs      \* df.empty: continue
    ELSE Append(logs, tag_rows(resp.rows, season, row.player_id, row.player_name))

\* pd.DataFrame() if not all_logs, else pd.concat(all_logs, ignore_index=True)
extract_result(logs) == IF logs = << >> THEN << >> ELSE Flatten(logs)

----------------------------------------------------------------------------
(* pipeline.py: clean_player_games *)

\* pandas NaT, the value of a date that does not parse
NaT == -1

\* pd.to_datetime(..., errors="coerce") on the endpoint's date strings; a
\* timestamp is written yyyymmdd
to_datetime(str) ==
    CASE str = "OCT 24, 2023" -> 20231024
      [] str = "APR 14, 2024" -> 20240414
      [] str = "OCT 22, 2024" -> 20241022
      [] str = "APR 13, 2025" -> 20250413
      [] OTHER -> NaT

\* columns lower-cased; of the two columns then called player_id (the endpoint's
\* Player_ID and the one extract added) the first, the endpoint's, is kept
lower_columns(r) ==
    [player_id |-> r.Player_ID, game_id |-> r.Game_ID, game_date |-> r.GAME_DATE,
     pts |-> r.PTS, reb |-> r.REB, ast |-> r.AST, video_available |-> r.VIDEO_AVAILABLE,
     season |-> r.season, player_name |-> r.player_name]

NaturalKey(r) == <<r.player_id, r.game_id, r.season>>

\* drop_duplicates(subset=["game_id"]): keep the first row of each game
RECURSIVE drop_duplicates_game(_)
drop_duplicates_game(rows) ==
    IF rows = << >> THEN << >>
    ELSE LET init == drop_duplicates_game(SubSeq(rows, 1, Len(rows) - 1))
             last == rows[Len(rows)]
         IN  IF \E i \in 1..Len(init) : init[i].game_id = last.game_id
             THEN init ELSE Append(init, last)

\* DataFrame.drop_duplicates(subset=key_cols): keep the first row of each key
RECURSIVE drop_duplicates_key(_)
drop_duplicates_key(rows) ==
    IF rows = << >> THEN << >>
    ELSE LET init == drop_duplicates_key(SubSeq(rows, 1, Len(rows) - 1))
             last == rows[Len(rows)]
         IN  IF \E i \in 1..Len(init) : NaturalKey(init[i]) = NaturalKey(last)
             THEN init ELSE Append(init, last)

\* out[keep]: the curated columns (video_available is not one)
project_keep(r) ==
    [season |-> r.season, player_id |-> r.player_id, player_name |-> r.player_name,
     game_id |-> r.game_id, game_date |-> r.game_date,
     pts |-> r.pts, reb |-> r.reb, ast |-> r.ast]

clean_player_games(df) ==
    IF df = << >> THEN df
    ELSE LET lowered == [i \in 1..Len(df) |-> lower_columns(df[i])]
             dated == [i \in 1..Len(df) |->
                          [lowered[i] EXCEPT !.game_date = to_datetime(@)]]
             deduped == drop_duplicates_key(dated)
         IN  [i \in 1..Len(deduped) |-> project_keep(deduped[i])]

----------------------------------------------------------------------------
(* pipeline.py: make_player_trends *)

\* rolling(10, min_periods=3)
Window == 10
MinPeriods == 3

\* a mean is kept exact, as a fraction in lowest terms; NaN has denominator 0
NaN == [num |-> 0, den |-> 0]

RECURSIVE GCD(_, _)
GCD(a, b) == IF b = 0 THEN a ELSE GCD(b, a % b)

Frac(n, d) == LET g == GCD(n, d) IN [num |-> n \div g, den |-> d \div g]

RECURSIVE Sum(_)
Sum(s) == IF s = << >> THEN 0 ELSE Head(s) + Sum(Tail(s))

Mean(s) == Frac(Sum(s), Len(s))

\* order of the season strings
SeasonOrd(season) == IF season = "2023-24" THEN 1 ELSE 2

\* row a sorts no later than row b by (player_id, season, game_date), NaT last
DateLE(a, b) == IF a = NaT THEN b = NaT ELSE (b = NaT \/ a <= b)

SortKeyLE(a, b) ==
    \/ a.player_id < b.player_id
    \/ /\ a.player_id = b.player_id
       /\ \/ SeasonOrd(a.season) < SeasonOrd(b.season)
          \/ a.season = b.season /\ DateLE(a.game_date, b.game_date)

\* insert r after the last row that sorts no later than it
insert_sorted(rows, r) ==
    LET before == {i \in 1..Len(rows) : SortKeyLE(rows[i], r)}
        k == IF before = {} THEN 0 ELSE CHOOSE i \in before : \A j \in before : j <= i
    IN  SubSeq(rows, 1, k) \o <<r>> \o SubSeq(rows, k + 1, Len(rows))

\* df.sort_values(["player_id", "season", "game_date"]): a stable sort
RECURSIVE sort_values(_)
sort_values(rows) ==
    IF rows = << >> THEN << >>
    ELSE insert_sorted(sort_values(SubSeq(rows, 1, Len(rows) - 1)), rows[Len(rows)])

GroupKey(r) == <<r.player_id, r.season>>

\* a window one row too long
rolling_mean_wide(s, k) ==
    LET lo == IF k - Window < 1 THEN 1 ELSE k - Window
        w == SubSeq(s, lo, k)
    IN  IF Len(w) < MinPeriods THEN NaN ELSE Mean(w)

\* s.rolling(Window, min_periods=MinPeriods).mean() at position k of series s
rolling_mean(s, k) ==
    LET lo == IF k - Window + 1 < 1 THEN 1 ELSE k - Window + 1
        w == SubSeq(s, lo, k)
    IN  IF Len(w) < MinPeriods THEN NaN ELSE Mean(w)

\* df.groupby(["player_id", "season"])[col].transform(rolling mean), at row i
roll10(df, col, i) ==
    LET members == SelectSeq([j \in 1..Len(df) |-> j],
                             LAMBDA j : GroupKey(df[j]) = GroupKey(df[i]))
        series == [n \in 1..Len(members) |-> df[members[n]][col]]
        k == CHOOSE n \in 1..Len(members) : members[n] = i
    IN  rolling_mean(series, k)

add_roll10(df, i) ==
    LET r == df[i]
    IN  [season |-> r.season, player_id |-> r.player_id, player_name |-> r.player_name,
         game_id |-> r.game_id, game_date |-> r.game_date,
         pts |-> r.pts, reb |-> r.reb, ast |-> r.ast,
         pts_roll10 |-> roll10(df, "pts", i),
         reb_roll10 |-> roll10(df, "reb", i),
         ast_roll10 |-> roll10(df, "ast", i)]

\* a mart that drops the rows whose rolling mean is not yet defined
make_player_trends_dropna(player_games) ==
    IF player_games = << >> THEN player_games
    ELSE LET df == sort_values(player_games)
         IN  SelectSeq([i \in 1..Len(df) |-> add_roll10(df, i)],
                       LAMBDA r : r.pts_roll10 # NaN)

make_player_trends(player_games) ==
    IF player_games = << >> THEN player_games
    ELSE LET df == sort_values(player_games)
         IN  [i \in 1..Len(df) |-> add_roll10(df, i)]

----------------------------------------------------------------------------
(* pipeline.py: save_parquet and run *)

Absent == [exists |-> FALSE, rows |-> << >>]

\* a write that appends to what the file held
save_parquet_append(fs, df, path) ==
    [fs EXCEPT ![path] = [exists |-> TRUE, rows |-> fs[path].rows \o df]]

\* df.to_parquet(path, index=False): the file is replaced
save_parquet(fs, df, path) == [fs EXCEPT ![path] = [exists |-> TRUE, rows |-> df]]

\* what an earlier run against other upstream data may have left behind
Stale == [exists |-> TRUE, rows |-> <<[left_by |-> "earlier run"]>>]

Pids == 1..Len(PLAYER_NAMES)
Pairs == Pids \X Range(SEASONS)

\* the k-th possible answer for a pair: an exception, an empty table, the two
\* games most recent first, or one game listed twice with differing lines
ResponseAt(pair, k) ==
    LET pid == pair[1]
        season == pair[2]
    IN  CASE k = 1 -> Failure
          [] k = 2 -> Table(<< >>)
          [] k = 3 -> Table(<<api_row(pid, Finale(season), HighLine),
                              api_row(pid, Opener(season), LowLine)>>)
          [] OTHER -> Table(<<api_row(pid, Opener(season), LowLine),
                              api_row(pid, Opener(season), HighLine)>>)

NoRun == [set |-> FALSE, files |-> [p \in Paths |-> Absent]]

\* the dashboard before it is started
DashIdle ==
    /\ dpc = "off"
    /\ shown = << >>
    /\ reads = << >>
    /\ fact = << >>
    /\ trends = << >>
    /\ players = << >>
    /\ selected_player = ""
    /\ selected_seasons = {}
    /\ fact_f = << >>
    /\ trends_f = << >>
    /\ league_f = << >>
    /\ ranged = FALSE

\* run() not yet started
ProcessInit ==
    /\ run_no = 0
    /\ dim_players = << >>
    /\ raised = ""
    /\ si = 1
    /\ pi = 1
    /\ all_logs = << >>
    /\ attempts = << >>
    /\ printed = << >>
    /\ first_run = NoRun
    /\ start_files = files
    /\ writes = << >>

LocalsInit ==
    /\ ProcessInit
    /\ raw_player_games = << >>
    /\ fact_player_game = << >>
    /\ player_trends = << >>

Init ==
    /\ registry \in Registries(Len(PLAYER_NAMES))
    /\ \E c \in [Pairs -> 1..4] : api = [p \in Pairs |-> ResponseAt(p, c[p])]
    /\ files \in {[p \in Paths |-> Absent], [p \in Paths |-> Stale]}
    /\ player_names = PLAYER_NAMES
    /\ pc = "idle"
    /\ LocalsInit
    /\ DashIdle

\* python pipeline.py: a new process, nothing kept from the one before
RunStart ==
    /\ pc \in {"idle", "done", "raised"}
    /\ run_no < MaxRuns
    /\ pc' = "resolve"
    /\ run_no' = run_no + 1
    /\ dim_players' = << >>
    /\ raised' = ""
    /\ si' = 1
    /\ pi' = 1
    /\ all_logs' = << >>
    /\ attempts' = << >>
    /\ printed' = << >>
    /\ raw_player_games' = << >>
    /\ fact_player_game' = << >>
    /\ player_trends' = << >>
    /\ start_files' = files
    /\ writes' = << >>
    /\ UNCHANGED dashVars
    /\ UNCHANGED <<registry, api, files, player_names, first_run>>

\* dim_players = resolve_player_ids(PLAYER_NAMES); a ValueError ends the process
Resolve ==
    /\ pc = "resolve"
    /\ LET r == resolve_player_ids(registry, player_names)
       IN  IF r.raised # ""
           THEN /\ pc' = "raised"
                /\ raised' = r.raised
                /\ UNCHANGED dim_players
           ELSE /\ pc' = "save_raw_players"
                /\ dim_players' = r.rows
                /\ UNCHANGED raised
    /\ UNCHANGED dashVars
    /\ UNCHANGED <<registry, api, files, player_names, run_no, si, pi, all_logs,
                   attempts, printed, raw_player_games, fact_player_game,
                   player_trends, first_run, start_files, writes>>

\* one save_parquet call of run(), then on to the next statement
Save(at, df, path, next) ==
    /\ pc = at
    /\ files' = save_parquet(files, df, path)
    /\ writes' = Append(writes, path)
    /\ pc' = next
    /\ first_run' = IF next = "done" /\ ~first_run.set
                    THEN [set |-> TRUE, files |-> files']
                    ELSE first_run
    /\ UNCHANGED dashVars
    /\ UNCHANGED <<registry, api, player_names, run_no, dim_players, raised, si, pi,
                   all_logs, attempts, printed, raw_player_games, fact_player_game,
                   player_trends, start_files>>

SaveRawPlayers == Save("save_raw_players", dim_players, RAW_PLAYERS, "extract")

\* a loop body without the try/except: a failing call ends the process
ExtractCallNoCatch ==
    /\ pc = "extract"
    /\ si <= Len(SEASONS)
    /\ pi <= Len(dim_players)
    /\ LET season == SEASONS[si]
           row == dim_players[pi]
           resp == api[<<row.player_id, season>>]
       IN  /\ attempts' = Append(attempts, <<season, row.player_id>>)
           /\ printed' = printed
           /\ all_logs' = extract_body(all_logs, resp, season, row)
           /\ pc' = IF resp.ok THEN pc ELSE "raised"
    /\ IF pi < Len(dim_players)
       THEN pi' = pi + 1 /\ si' = si
       ELSE pi' = 1 /\ si' = si + 1
    /\ UNCHANGED dashVars
    /\ UNCHANGED <<registry, api, files, player_names, run_no, dim_players,
                   raised, raw_player_games, fact_player_game, player_trends,
                   first_run, start_files, writes>>

\* one pass of the body of the loops of extract_player_gamelogs
ExtractCall ==
    /\ pc = "extract"
    /\ si <= Len(SEASONS)
    /\ pi <= Len(dim_players)
    /\ LET season == SEASONS[si]
           row == dim_players[pi]
           resp == api[<<row.player_id, season>>]
       IN  /\ attempts' = Append(attempts, <<season, row.player_id>>)
           /\ printed' = IF resp.ok THEN printed
                         ELSE Append(printed, <<season, row.player_id>>)
           /\ all_logs' = extract_body(all_logs, resp, season, row)
    /\ IF pi < Len(dim_players)
       THEN pi' = pi + 1 /\ si' = si
       ELSE pi' = 1 /\ si' = si + 1
    /\ UNCHANGED dashVars
    /\ UNCHANGED <<registry, api, files, player_names, pc, run_no, dim_players,
                   raised, raw_player_games, fact_player_game, player_trends,
                   first_run, start_files, writes>>

\* the loops are over: extract_player_gamelogs returns
ExtractReturn ==
    /\ pc = "extract"
    /\ si > Len(SEASONS) \/ dim_players = << >>
    /\ raw_player_games' = extract_result(all_logs)
    /\ pc' = "save_raw_gamelogs"
    /\ UNCHANGED dashVars
    /\ UNCHANGED <<registry, api, files, player_names, run_no, dim_players, raised,
                   si, pi, all_logs, attempts, printed, fact_player_game,
                   player_trends, first_run, start_files, writes>>

SaveRawGamelogs == Save("save_raw_gamelogs", raw_player_games, RAW_GAMELOGS, "clean")

\* fact_player_game = clean_player_games(raw_player_games)
Clean ==
    /\ pc = "clean"
    /\ fact_player_game' = clean_player_games(raw_player_games)
    /\ pc' = "trends"
    /\ UNCHANGED dashVars
    /\ UNCHANGED <<registry, api, files, player_names, run_no, dim_players, raised,
                   si, pi, all_logs, attempts, printed, raw_player_games,
                   player_trends, first_run, start_files, writes>>

\* player_trends = make_player_trends(fact_player_game)
Trends ==
    /\ pc = "trends"
    /\ player_trends' = make_player_trends(fact_player_game)
    /\ pc' = "save_dim"
    /\ UNCHANGED dashVars
    /\ UNCHANGED <<registry, api, files, player_names, run_no, dim_players, raised,
                   si, pi, all_logs, attempts, printed, raw_player_games,
                   fact_player_game, first_run, start_files, writes>>

SaveDim == Save("save_dim", dim_players, DIM_PLAYERS, "save_fact")
SaveFact == Save("save_fact", fact_player_game, FACT_PATH, "save_trends")
SaveTrends == Save("save_trends", player_trends, TRENDS_PATH, "done")


Next ==
    \/ RunStart
    \/ Resolve
    \/ SaveRawPlayers
    \/ ExtractCall
    \/ ExtractReturn
    \/ SaveRawGamelogs
    \/ Clean
    \/ Trends
    \/ SaveDim
    \/ SaveFact
    \/ SaveTrends

Spec == Init /\ [][Next]_vars

----------------------------------------------------------------------------
(* resolve_player_ids on any list of names *)

InitResolve ==
    /\ registry \in Registries(NumRegistry)
    /\ api = << >>
    /\ files = [p \in Paths |-> Absent]
    /\ player_names \in SeqsUpTo(LookupNames, MaxNames)
    /\ pc = "resolve"
    /\ LocalsInit
    /\ DashIdle

SpecResolve == InitResolve /\ [][Resolve]_vars

----------------------------------------------------------------------------
(* clean_player_games on any table extract_player_gamelogs can return *)

\* longest raw table handed to clean_player_games in SpecClean
MaxRawRows == 3

\* a game-log row as extract_player_gamelogs leaves it: the endpoint's row for
\* the player asked for, tagged with the season, the id and the display name
TaggedRows ==
    UNION {{tag_row(api_row(pid, g, st), season, pid, PLAYER_NAMES[pid]) :
               pid \in Pids, g \in GamesOf(season), st \in StatLines} :
           season \in Range(SEASONS)}

InitClean ==
    /\ registry = << >>
    /\ api = << >>
    /\ files = [p \in Paths |-> Absent]
    /\ player_names = PLAYER_NAMES
    /\ pc = "clean"
    /\ ProcessInit
    /\ raw_player_games \in SeqsUpTo(TaggedRows, MaxRawRows)
    /\ fact_player_game = << >>
    /\ player_trends = << >>
    /\ DashIdle

SpecClean == InitClean /\ [][Clean]_vars

----------------------------------------------------------------------------
(* make_player_trends on fact tables long enough to fill the window *)

\* longest fact table handed to make_player_trends in SpecTrends
MaxGames == 11

\* the i-th game of the 2023-24 season
GameId(i) == 22300000 + i

\* its date: the games come in date order (stride 1), in reverse (16), shuffled
\* (5), or all on one day (0)
DateStrides == {0, 1, 5, 16}
GameDate(i, stride) == 20231101 + ((i * stride) % 17)

\* its box-score line
GameLine(i) == [pts |-> 10 + ((i * i) % 7), reb |-> (3 * i) % 5, ast |-> i % 4]

fact_row(i, pid, stride) ==
    [season |-> "2023-24", player_id |-> pid, player_name |-> PLAYER_NAMES[pid],
     game_id |-> GameId(i), game_date |-> GameDate(i, stride),
     pts |-> GameLine(i).pts, reb |-> GameLine(i).reb, ast |-> GameLine(i).ast]

InitTrends ==
    /\ registry = << >>
    /\ api = << >>
    /\ files = [p \in Paths |-> Absent]
    /\ player_names = PLAYER_NAMES
    /\ pc = "trends"
    /\ ProcessInit
    /\ raw_player_games = << >>
    /\ \E n \in 0..MaxGames, stride \in DateStrides :
          \E who \in [1..n -> Pids] :
              fact_player_game = [i \in 1..n |-> fact_row(i, who[i], stride)]
    /\ player_trends = << >>
    /\ DashIdle

SpecTrends == InitTrends /\ [][Trends]_vars

----------------------------------------------------------------------------
(* pipeline.py: what one whole run() writes, as a function of the upstream data *)

\* the loops of extract_player_gamelogs from position (s, p) on
RECURSIVE extract_loop(_, _, _, _, _)
extract_loop(dim, answers, s, p, logs) ==
    IF s > Len(SEASONS) \/ dim = << >> THEN logs
    ELSE LET season == SEASONS[s]
             row == dim[p]
             now == extract_body(logs, answers[<<row.player_id, season>>], season, row)
         IN  IF p < Len(dim)
             THEN extract_loop(dim, answers, s, p + 1, now)
             ELSE extract_loop(dim, answers, s + 1, 1, now)

extract_player_gamelogs(dim, answers) ==
    extract_result(extract_loop(dim, answers, 1, 1, << >>))

\* the five files after run() on a registry where every name resolves
run_outputs(reg, answers) ==
    LET dim == resolve_player_ids(reg, PLAYER_NAMES).rows
        raw == extract_player_gamelogs(dim, answers)
        games == clean_player_games(raw)
    IN  [p \in Paths |->
            [exists |-> TRUE,
             rows |-> CASE p = RAW_PLAYERS -> dim
                        [] p = RAW_GAMELOGS -> raw
                        [] p = DIM_PLAYERS -> dim
                        [] p = FACT_PATH -> games
                        [] OTHER -> make_player_trends(games)]]

----------------------------------------------------------------------------
(* dashboard.py *)

Processed == {FACT_PATH, TRENDS_PATH, DIM_PLAYERS}

\* the check with "and" for "or"
processed_all_missing(fs) ==
    ~fs[FACT_PATH].exists /\ ~fs[TRENDS_PATH].exists /\ ~fs[DIM_PLAYERS].exists

\* not FACT_PATH.exists() or not TRENDS_PATH.exists() or not PLAYERS_PATH.exists()
processed_missing(fs) ==
    ~fs[FACT_PATH].exists \/ ~fs[TRENDS_PATH].exists \/ ~fs[DIM_PLAYERS].exists

\* players["player_name"].unique(), fact["season"].dropna().unique()
player_options(tbl) == {tbl[i].player_name : i \in 1..Len(tbl)}
season_options(tbl) == {tbl[i].season : i \in 1..Len(tbl)}

\* the filter with "|" for "&"
filter_player_or_seasons(tbl, player, seasons) ==
    SelectSeq(tbl, LAMBDA r : r.player_name = player \/ r.season \in seasons)

\* tbl[(tbl["player_name"] == player) & (tbl["season"].isin(seasons))]
filter_player_seasons(tbl, player, seasons) ==
    SelectSeq(tbl, LAMBDA r : r.player_name = player /\ r.season \in seasons)

\* tbl[(tbl["game_date"] >= start) & (tbl["game_date"] <= end)]; NaT compares false
filter_dates(tbl, start, end) ==
    SelectSeq(tbl, LAMBDA r : r.game_date # NaT /\ r.game_date >= start /\ r.game_date <= end)

\* fact[fact["season"].isin(seasons)]
filter_seasons(tbl, seasons) == SelectSeq(tbl, LAMBDA r : r.season \in seasons)

\* insert r after the last row dated no later than it
insert_by_date(rows, r) ==
    LET before == {i \in 1..Len(rows) : DateLE(rows[i].game_date, r.game_date)}
        k == IF before = {} THEN 0 ELSE CHOOSE i \in before : \A j \in before : j <= i
    IN  SubSeq(rows, 1, k) \o <<r>> \o SubSeq(rows, k + 1, Len(rows))

\* fact_f.sort_values("game_date")
RECURSIVE sort_by_date(_)
sort_by_date(rows) ==
    IF rows = << >> THEN << >>
    ELSE insert_by_date(sort_by_date(SubSeq(rows, 1, Len(rows) - 1)), rows[Len(rows)])

\* the dashboard is opened on files a run wrote, any of the three processed
\* files possibly missing (the dashboard reads no is_active, so the registries
\* with every player active stand for the rest)
InitDash ==
    /\ registry \in {r \in Registries(Len(PLAYER_NAMES)) :
                        /\ resolve_player_ids(r, PLAYER_NAMES).raised = ""
                        /\ \A i \in 1..Len(r) : r[i].is_active}
    /\ \E c \in [Pairs -> 1..4] : api = [p \in Pairs |-> ResponseAt(p, c[p])]
    /\ \E gone \in SUBSET Processed :
          files = [p \in Paths |-> IF p \in gone THEN Absent
                                   ELSE run_outputs(registry, api)[p]]
    /\ player_names = PLAYER_NAMES
    /\ pc = "done"
    /\ LocalsInit
    /\ DashIdle

\* streamlit run dashboard.py: title and caption
DashStart ==
    /\ dpc = "off"
    /\ shown' = <<"title", "caption">>
    /\ dpc' = "check"
    /\ UNCHANGED pipeVars
    /\ UNCHANGED <<reads, fact, trends, players, selected_player, selected_seasons,
                   fact_f, trends_f, league_f, ranged>>

\* the check for the processed files: st.error and st.stop, or go on to load
DashCheck ==
    /\ dpc = "check"
    /\ IF processed_missing(files)
       THEN /\ shown' = Append(shown, "error")
            /\ dpc' = "stopped"
       ELSE /\ shown' = shown
            /\ dpc' = "load"
    /\ UNCHANGED pipeVars
    /\ UNCHANGED <<reads, fact, trends, players, selected_player, selected_seasons,
                   fact_f, trends_f, league_f, ranged>>

\* fact, trends, players = load_data()
DashLoad ==
    /\ dpc = "load"
    /\ reads' = <<FACT_PATH, TRENDS_PATH, DIM_PLAYERS>>
    /\ fact' = files[FACT_PATH].rows
    /\ trends' = files[TRENDS_PATH].rows
    /\ players' = files[DIM_PLAYERS].rows
    /\ dpc' = "sidebar"
    /\ UNCHANGED pipeVars
    /\ UNCHANGED <<shown, selected_player, selected_seasons, fact_f, trends_f,
                   league_f, ranged>>

\* the sidebar's player and seasons, then the two filtered tables; a table with
\* no columns (no rows were ever extracted) makes the column lookup raise
DashFilter ==
    /\ dpc = "sidebar"
    /\ IF players = << >> \/ fact = << >> \/ trends = << >>
       THEN /\ dpc' = "crashed"
            /\ UNCHANGED <<selected_player, selected_seasons, fact_f, trends_f>>
       ELSE /\ selected_player' \in player_options(players)
            /\ selected_seasons' \in SUBSET season_options(fact)
            /\ fact_f' = filter_player_seasons(fact, selected_player', selected_seasons')
            /\ trends_f' = filter_player_seasons(trends, selected_player', selected_seasons')
            /\ dpc' = "filtered"
    /\ UNCHANGED pipeVars
    /\ UNCHANGED <<shown, reads, fact, trends, players, league_f, ranged>>

\* the dates a user may pick: the days on which some loaded game was played
DateChoices == {fact[i].game_date : i \in 1..Len(fact)} \ {NaT}

\* the date-range widget, shown when fact_f has rows: both ends picked, or only
\* the first (then date_range[1] raises)
DashDateRange ==
    /\ dpc = "filtered"
    /\ IF fact_f = << >>
       THEN /\ dpc' = "tabs"
            /\ UNCHANGED <<fact_f, trends_f, ranged>>
       ELSE \/ \E start \in DateChoices, end \in DateChoices :
                  /\ start <= end
                  /\ fact_f' = filter_dates(fact_f, start, end)
                  /\ trends_f' = filter_dates(trends_f, start, end)
                  /\ ranged' = TRUE
                  /\ dpc' = "tabs"
            \/ /\ dpc' = "crashed"
               /\ UNCHANGED <<fact_f, trends_f, ranged>>
    /\ UNCHANGED pipeVars
    /\ UNCHANGED <<shown, reads, fact, trends, players, selected_player,
                   selected_seasons, league_f>>

\* the three tabs; overlay: the rolling-average box is ticked and the metric has
\* a rolling column
DashTabs ==
    /\ dpc = "tabs"
    /\ league_f' = filter_seasons(fact, selected_seasons)
    /\ IF fact_f = << >>
       THEN /\ UNCHANGED <<fact_f, trends_f>>
            /\ shown' = shown \o <<"warning", "game_log_table", "warning",
                                   "leaderboard_table", "warning">>
       ELSE \E overlay \in BOOLEAN :
               /\ fact_f' = sort_by_date(fact_f)
               /\ trends_f' = IF overlay THEN sort_by_date(trends_f) ELSE trends_f
               /\ shown' = shown
                     \o <<"line_chart">>
                     \o (IF overlay THEN <<"rolling_chart">> ELSE << >>)
                     \o <<"game_log_table", "season_summary_table",
                          "leaderboard_table", "metrics", "bar_chart">>
    /\ dpc' = "rendered"
    /\ UNCHANGED pipeVars
    /\ UNCHANGED <<reads, fact, trends, players, selected_player, selected_seasons, ranged>>

NextDash ==
    \/ DashStart
    \/ DashCheck
    \/ DashLoad
    \/ DashFilter
    \/ DashDateRange
    \/ DashTabs

SpecDash == InitDash /\ [][NextDash]_vars

----------------------------------------------------------------------------
(* Properties *)

Min(S) == CHOOSE x \in S : \A y \in S : x <= y

\* the registry's answer for a name, and the positions of its active matches
MatchesOf(name) == find_players_by_full_name(registry, name)
ActiveIn(m) == {k \in 1..Len(m) : m[k].is_active}

\* the identifier a name resolves to
ChosenId(name) ==
    LET m == MatchesOf(name)
    IN  IF ActiveIn(m) = {} THEN m[1].id ELSE m[Min(ActiveIn(m))].id

\* resolve_player_ids has returned a table
Resolved == pc = "save_raw_players"

\* C1: the table resolve_player_ids returns has one row per distinct resolved
\* identifier: no two rows share a player_id, and the player_ids of the rows are
\* exactly the identifiers the input names resolve to.
C1_OneRowPerResolvedId ==
    Resolved =>
        /\ \A i, j \in 1..Len(dim_players) :
              dim_players[i].player_id = dim_players[j].player_id => i = j
        /\ {dim_players[i].player_id : i \in 1..Len(dim_players)}
              = {ChosenId(player_names[k]) : k \in 1..Len(player_names)}

\* two different names resolved to one player, and one row came back
C1_Witness ==
    /\ Resolved
    /\ Len(player_names) = 2
    /\ player_names[1] # player_names[2]
    /\ ChosenId(player_names[1]) = ChosenId(player_names[2])
    /\ Len(dim_players) = 1

\* C9: for every row returned, the identifier is that of the first active match
\* of the row's name in registry order when some match is active, and that of the
\* first match otherwise.
C9_PrefersActiveMatch ==
    Resolved =>
        \A i \in 1..Len(dim_players) :
            LET m == MatchesOf(dim_players[i].player_name)
            IN  IF \E k \in 1..Len(m) : m[k].is_active
                THEN \E k \in 1..Len(m) :
                        /\ m[k].is_active
                        /\ \A j \in 1..(k - 1) : ~m[j].is_active
                        /\ dim_players[i].player_id = m[k].id
                        /\ dim_players[i].is_active
                ELSE /\ dim_players[i].player_id = m[1].id
                     /\ ~dim_players[i].is_active

\* a name whose first match is inactive and whose second is active got the second
C9_Witness ==
    /\ Resolved
    /\ \E i \in 1..Len(dim_players) :
          LET m == MatchesOf(dim_players[i].player_name)
          IN  /\ Len(m) >= 2
              /\ ~m[1].is_active
              /\ m[2].is_active
              /\ dim_players[i].player_id = m[2].id

\* the configured names the registry has no match for
Unmatched == {k \in 1..Len(player_names) : MatchesOf(player_names[k]) = << >>}

\* C7: when some configured name has no registry match, run() ends in the
\* ValueError raised at the first such name: no table is returned, no extraction
\* call is made, no file is written, and the files are as they were when the run
\* began; and run() raises in no other case.
C7_ResolutionFailureIsFatal ==
    /\ Unmatched # {} =>
          /\ pc \in {"idle", "resolve", "raised"}
          /\ dim_players = << >>
          /\ attempts = << >>
          /\ writes = << >>
          /\ files = start_files
          /\ pc = "raised" => raised = player_names[Min(Unmatched)]
    /\ pc = "raised" => Unmatched # {}

\* the second run raised at the second name, the first name having resolved, and
\* the files of an earlier run are still there
C7_Witness ==
    /\ pc = "raised"
    /\ run_no = 2
    /\ raised = PLAYER_NAMES[2]
    /\ MatchesOf(PLAYER_NAMES[1]) # << >>
    /\ \A p \in Paths : files[p] = Stale

\* positions of run() after extract_player_gamelogs has returned
AfterExtract ==
    {"save_raw_gamelogs", "clean", "trends", "save_dim", "save_fact", "save_trends", "done"}

\* the (season, player) pairs in season-major order
PairsInOrder ==
    [k \in 1..(Len(SEASONS) * Len(dim_players)) |->
        <<SEASONS[((k - 1) \div Len(dim_players)) + 1],
          dim_players[((k - 1) % Len(dim_players)) + 1]>>]

\* what the k-th pair adds to the result
ContributionOf(k) ==
    LET season == PairsInOrder[k][1]
        row == PairsInOrder[k][2]
        resp == api[<<row.player_id, season>>]
    IN  IF resp.ok
        THEN tag_rows(resp.rows, season, row.player_id, row.player_name)
        ELSE << >>

FailedAt(k) == ~api[<<PairsInOrder[k][2].player_id, PairsInOrder[k][1]>>].ok

\* C6: whatever calls fail, the pairs are attempted once each in season-major
\* order, the process never ends in an extraction failure, and the table returned
\* is the concatenation, in that order, of the answers of the calls that
\* succeeded (the failures, and only they, are printed).
C6_ExtractionFailuresAreSkipped ==
    LET n == Len(SEASONS) * Len(dim_players)
        tried == [k \in 1..n |-> <<PairsInOrder[k][1], PairsInOrder[k][2].player_id>>]
    IN  /\ pc = "extract" =>
              /\ attempts = SubSeq(tried, 1, (si - 1) * Len(dim_players) + (pi - 1))
              /\ si <= Len(SEASONS) => pi <= Len(dim_players)
        /\ pc \in AfterExtract =>
              /\ attempts = tried
              /\ raw_player_games = Flatten([k \in 1..n |-> ContributionOf(k)])
              /\ printed = SelectSeq(tried, LAMBDA a : ~api[<<a[2], a[1]>>].ok)
        /\ pc = "raised" => attempts = << >>

\* a call failed, a later call succeeded with rows, and those rows are returned
C6_Witness ==
    /\ pc = "save_raw_gamelogs"
    /\ \E i, j \in 1..Len(attempts) :
          /\ i < j
          /\ FailedAt(i)
          /\ ContributionOf(j) # << >>
          /\ \E r \in 1..Len(raw_player_games) :
                raw_player_games[r] = ContributionOf(j)[1]

\* C4: a completed run leaves the five files exactly as the first completed run
\* left them, and their content is a function of the upstream data alone,
\* whatever the files held before.
C4_RerunWritesTheSameFiles ==
    pc = "done" =>
        /\ first_run.set
        /\ files = first_run.files
        /\ files = run_outputs(registry, api)

\* a second run over files the first run wrote, with a failed call and rows
C4_Witness ==
    /\ pc = "done"
    /\ run_no = 2
    /\ printed # << >>
    /\ Len(files[TRENDS_PATH].rows) >= 3
    /\ start_files = first_run.files

\* positions of run() after make_player_trends has returned
AfterTrends == {"save_dim", "save_fact", "save_trends", "done"}

RollColumns == {"pts_roll10", "reb_roll10", "ast_roll10"}

\* C10: the mart has the fact table's rows, each with its original columns
\* unchanged and the three rolling columns added, in (player_id, season,
\* game_date) order.
C10_MartIsFactAugmented ==
    pc \in AfterTrends =>
        /\ Len(player_trends) = Len(fact_player_game)
        /\ {NaturalKey(player_trends[i]) : i \in 1..Len(player_trends)}
              = {NaturalKey(fact_player_game[i]) : i \in 1..Len(fact_player_game)}
        /\ \A f \in Range(fact_player_game) :
              Cardinality({i \in 1..Len(player_trends) : project_keep(player_trends[i]) = f})
                 = Cardinality({i \in 1..Len(fact_player_game) : fact_player_game[i] = f})
        /\ \A i \in 1..Len(player_trends) :
              DOMAIN player_trends[i] = DOMAIN fact_player_game[1] \cup RollColumns
        /\ \A i, j \in 1..Len(player_trends) :
              i < j => SortKeyLE(player_trends[i], player_trends[j])

\* a mart of three rows or more whose rows are not in the fact table's order
C10_Witness ==
    /\ pc = "save_dim"
    /\ Len(fact_player_game) >= 3
    /\ \E i \in 1..Len(fact_player_game) :
          project_keep(player_trends[i]) # fact_player_game[i]

\* clean_player_games has returned
Cleaned == pc = "trends"

\* C2: for a non-empty input, no two output rows share (player_id, game_id,
\* season), and the keys of the output are exactly the keys of the input.
C2_OneRowPerNaturalKey ==
    Cleaned /\ raw_player_games # << >> =>
        /\ \A i, j \in 1..Len(fact_player_game) :
              NaturalKey(fact_player_game[i]) = NaturalKey(fact_player_game[j]) => i = j
        /\ {NaturalKey(fact_player_game[i]) : i \in 1..Len(fact_player_game)}
              = {<<raw_player_games[i].player_id, raw_player_games[i].Game_ID,
                   raw_player_games[i].season>> : i \in 1..Len(raw_player_games)}

\* three rows in, two of them with one key, two rows out: two players in one game
C2_Witness ==
    /\ Cleaned
    /\ Len(raw_player_games) = 3
    /\ Len(fact_player_game) = 2
    /\ fact_player_game[1].game_id = fact_player_game[2].game_id
    /\ fact_player_game[1].player_id # fact_player_game[2].player_id

\* make_player_trends has returned
Trended == pc = "save_dim"

\* rows of the mart in the group of row i, before it
PriorInGroup(i) ==
    {j \in 1..(i - 1) : GroupKey(player_trends[j]) = GroupKey(player_trends[i])}

\* the n last positions of a set of positions
LastOf(S, n) == {j \in S : Cardinality({k \in S : k > j}) < n}

RECURSIVE TotalOver(_, _)
TotalOver(col, S) ==
    IF S = {} THEN 0
    ELSE LET j == Min(S) IN player_trends[j][col] + TotalOver(col, S \ {j})

\* undefined over fewer than 3 games, else the mean of col over the games at S
MeanOfGames(col, S) ==
    IF Cardinality(S) < 3 THEN NaN
    ELSE LET g == GCD(TotalOver(col, S), Cardinality(S))
         IN  [num |-> TotalOver(col, S) \div g, den |-> Cardinality(S) \div g]

RollOf(col) ==
    CASE col = "pts" -> "pts_roll10" [] col = "reb" -> "reb_roll10" [] OTHER -> "ast_roll10"

InDateOrderWithinGroups ==
    \A i \in 1..Len(player_trends) : \A j \in PriorInGroup(i) :
        player_trends[j].game_date <= player_trends[i].game_date

\* C3 as stated: the rolling average of a row is taken over the at most 10 games
\* of its group before it.
C3_WindowOfPriorGames ==
    Trended =>
        /\ InDateOrderWithinGroups
        /\ \A i \in 1..Len(player_trends) : \A col \in {"pts", "reb", "ast"} :
              player_trends[i][RollOf(col)] = MeanOfGames(col, LastOf(PriorInGroup(i), 10))

\* C3 amended: the rolling average of a row is taken over the row's own game and
\* the at most 9 games of its group before it; it is undefined when these are
\* fewer than 3 games.
C3_WindowEndsAtTheGame ==
    Trended =>
        /\ InDateOrderWithinGroups
        /\ \A i \in 1..Len(player_trends) : \A col \in {"pts", "reb", "ast"} :
              player_trends[i][RollOf(col)]
                 = MeanOfGames(col, LastOf(PriorInGroup(i) \cup {i}, 10))

\* a group of more than 10 games: its first two rows undefined, its eleventh a
\* mean that leaves the first game out
C3_Witness ==
    /\ Trended
    /\ \E i \in 1..Len(player_trends) :
          /\ Cardinality(PriorInGroup(i)) = 10
          /\ player_trends[i].pts_roll10 # NaN
          /\ player_trends[i].pts_roll10.den = 10
    /\ \E i \in 1..Len(player_trends) : player_trends[i].reb_roll10 = NaN
    /\ \E i \in 1..(Len(fact_player_game) - 1) :
          fact_player_game[i].game_date > fact_player_game[i + 1].game_date

\* C5: with one season selected, every row of the filtered fact and trends tables
\* is of that season and of the selected player, before and after the date-range
\* filter, and every row the leaderboard is built from is of that season.
C5_SingleSeasonFilter ==
    Cardinality(selected_seasons) = 1 =>
        /\ dpc \in {"filtered", "tabs", "rendered", "crashed"}
        /\ \A i \in 1..Len(fact_f) :
              fact_f[i].season \in selected_seasons /\ fact_f[i].player_name = selected_player
        /\ \A i \in 1..Len(trends_f) :
              trends_f[i].season \in selected_seasons /\ trends_f[i].player_name = selected_player
        /\ \A i \in 1..Len(league_f) : league_f[i].season \in selected_seasons

\* one season of two selected, the date range applied, rows left, and the loaded
\* table holds rows of the other season and of the other player in this season
C5_Witness ==
    /\ dpc = "rendered"
    /\ ranged
    /\ Cardinality(selected_seasons) = 1
    /\ fact_f # << >>
    /\ trends_f # << >>
    /\ \E i \in 1..Len(fact) : fact[i].season \notin selected_seasons
    /\ \E i \in 1..Len(fact) :
          fact[i].season \in selected_seasons /\ fact[i].player_name # selected_player
    /\ \E i \in 1..Len(league_f) : league_f[i].player_name # selected_player

\* C8: when one of the three processed files is absent, the dashboard gets no
\* further than the error: it stops with the error as the last thing shown,
\* having read no file, built no filter and rendered no chart or table.
C8_MissingFileStopsDashboard ==
    (\E p \in Processed : ~files[p].exists) =>
        /\ dpc \in {"off", "check", "stopped"}
        /\ reads = << >>
        /\ fact = << >> /\ trends = << >> /\ players = << >>
        /\ selected_player = "" /\ selected_seasons = {}
        /\ fact_f = << >> /\ trends_f = << >> /\ league_f = << >>
        /\ Range(shown) \subseteq {"title", "caption", "error"}
        /\ dpc = "stopped" => shown = <<"title", "caption", "error">>
        /\ dpc = "check" => "error" \notin Range(shown)

\* only dim_players is absent, and the dashboard has stopped on the error
C8_Witness ==
    /\ dpc = "stopped"
    /\ files[FACT_PATH].exists
    /\ files[TRENDS_PATH].exists
    /\ ~files[DIM_PLAYERS].exists
    /\ files[FACT_PATH].rows # << >>

====
